---------------------------- MODULE Spec2Model ----------------------------
(***************************************************************************)
(* CRC-64/NVME checksum tool (src/bin/crc_64_nvme_checksum.rs).            *)
(*                                                                         *)
(* A u64 is the set of its one-bit positions, a subset of 0..63 (bit 0 is  *)
(* the least significant), so every operation keeps the 64-bit width: XOR  *)
(* is the symmetric difference, a shift moves and drops positions.         *)
(* A byte is a number in 0..255, a byte slice a sequence of bytes.         *)
(***************************************************************************)
EXTENDS Integers, Sequences, FiniteSets, TLC

(***************************************************************************)
(* 64-bit words                                                            *)
(***************************************************************************)
Pow2(n) == 2 ^ n

Min(a, b) == IF a < b THEN a ELSE b

\* A u64 literal from its 16 hexadecimal digits, most significant first.
FromHex(h) == {i \in 0..63 : (h[16 - (i \div 4)] \div Pow2(i % 4)) % 2 = 1}

\* A byte widened to u64 (`byte as u64`).
FromByte(b) == {i \in 0..7 : (b \div Pow2(i)) % 2 = 1}

Xor(a, b) == (a \ b) \cup (b \ a)

Not64(a) == (0..63) \ a

Shr(a, n) == {i - n : i \in {j \in a : j >= n}}

Shl(a, n) == {i + n : i \in {j \in a : j + n <= 63}}

reverse_bits(a) == {63 - i : i \in a}

\* (crc & 0xFF) as a table index 0..255.
LowByte(a) == (IF 0 \in a THEN 1 ELSE 0) + (IF 1 \in a THEN 2 ELSE 0)
            + (IF 2 \in a THEN 4 ELSE 0) + (IF 3 \in a THEN 8 ELSE 0)
            + (IF 4 \in a THEN 16 ELSE 0) + (IF 5 \in a THEN 32 ELSE 0)
            + (IF 6 \in a THEN 64 ELSE 0) + (IF 7 \in a THEN 128 ELSE 0)

(***************************************************************************)
(* The algorithm descriptor                                                *)
(***************************************************************************)
\* The descriptor with its reflection flags off.
CRC_NVME_Unreflected ==
    [ width   |-> 64,
      poly    |-> FromHex(<<10,13,9,3, 13,2,3,5, 9,4,12,9, 3,6,5,9>>),
      init    |-> FromHex(<<15,15,15,15, 15,15,15,15, 15,15,15,15, 15,15,15,15>>),
      refin   |-> FALSE,
      refout  |-> FALSE,
      xorout  |-> FromHex(<<15,15,15,15, 15,15,15,15, 15,15,15,15, 15,15,15,15>>),
      check   |-> FromHex(<<10,14,8,11, 1,4,8,6, 0,10,7,9, 9,8,8,8>>),
      residue |-> FromHex(<<0,0,0,0, 0,0,0,0, 0,0,0,0, 0,0,0,0>>) ]

\* The descriptor with the last two digits of the polynomial exchanged.
CRC_NVME_PolyTypo ==
    [ width   |-> 64,
      poly    |-> FromHex(<<10,13,9,3, 13,2,3,5, 9,4,12,9, 3,6,9,5>>),
      init    |-> FromHex(<<15,15,15,15, 15,15,15,15, 15,15,15,15, 15,15,15,15>>),
      refin   |-> TRUE,
      refout  |-> TRUE,
      xorout  |-> FromHex(<<15,15,15,15, 15,15,15,15, 15,15,15,15, 15,15,15,15>>),
      check   |-> FromHex(<<10,14,8,11, 1,4,8,6, 0,10,7,9, 9,8,8,8>>),
      residue |-> FromHex(<<0,0,0,0, 0,0,0,0, 0,0,0,0, 0,0,0,0>>) ]

CRC_NVME ==
    [ width   |-> 64,
      poly    |-> FromHex(<<10,13,9,3, 13,2,3,5, 9,4,12,9, 3,6,5,9>>),
      init    |-> FromHex(<<15,15,15,15, 15,15,15,15, 15,15,15,15, 15,15,15,15>>),
      refin   |-> TRUE,
      refout  |-> TRUE,
      xorout  |-> FromHex(<<15,15,15,15, 15,15,15,15, 15,15,15,15, 15,15,15,15>>),
      check   |-> FromHex(<<10,14,8,11, 1,4,8,6, 0,10,7,9, 9,8,8,8>>),
      residue |-> FromHex(<<0,0,0,0, 0,0,0,0, 0,0,0,0, 0,0,0,0>>) ]

(***************************************************************************)
(* Reference Digest: crc::Crc::<u64>::new(&CRC_NVME), digest(), update(),  *)
(* finalize().  One table entry per leading byte value, one byte folded    *)
(* per step.                                                               *)
(***************************************************************************)
\* The polynomial as the table generation uses it.
TablePoly(alg) ==
    IF alg.refin THEN Shr(reverse_bits(alg.poly), 64 - alg.width)
                 ELSE Shl(alg.poly, 64 - alg.width)

RECURSIVE TableStep(_, _, _, _)
TableStep(poly, reflect, value, k) ==
    IF k = 0 THEN value
    ELSE IF reflect
         THEN TableStep(poly, reflect,
                        IF 0 \in value THEN Xor(Shr(value, 1), poly)
                                       ELSE Shr(value, 1), k - 1)
         ELSE TableStep(poly, reflect,
                        IF 63 \in value THEN Xor(Shl(value, 1), poly)
                                        ELSE Shl(value, 1), k - 1)

\* table[i], the register after the eight division steps of byte value i.
TableEntry(alg, i) ==
    TableStep(TablePoly(alg), alg.refin,
              IF alg.refin THEN FromByte(i) ELSE Shl(FromByte(i), 56), 8)

\* The initial register of a fresh digest.
RefInit(alg) ==
    IF alg.refin THEN Shr(reverse_bits(alg.init), 64 - alg.width)
                 ELSE Shl(alg.init, 64 - alg.width)

\* One step of update_bytewise: the register after one more byte.
RefStep(alg, crc, byte) ==
    IF alg.refin
    THEN Xor(TableEntry(alg, LowByte(Xor(crc, FromByte(byte)))), Shr(crc, 8))
    ELSE Xor(TableEntry(alg, LowByte(Xor(Shr(crc, 56), FromByte(byte)))), Shl(crc, 8))

\* update(bytes): the bytes in order.  The register is compared with itself
\* so that it is evaluated at each byte and not as one nested expression.
RECURSIVE RefUpdate(_, _, _)
RefUpdate(alg, crc, bytes) ==
    IF bytes = <<>> \/ crc # crc THEN crc
    ELSE RefUpdate(alg, RefStep(alg, crc, Head(bytes)), Tail(bytes))

RefFinalize(alg, crc) ==
    LET r == IF alg.refin # alg.refout THEN reverse_bits(crc) ELSE crc
        s == IF alg.refout THEN r ELSE Shr(r, 64 - alg.width)
    IN  Xor(s, alg.xorout)

(***************************************************************************)
(* Accelerated Digest: crc64fast_nvme::Digest (new, write, sum64).  It is  *)
(* a hard-coded specialisation of the variant and does not read CRC_NVME.  *)
(* A fold step multiplies the register, as a polynomial over GF(2), by a   *)
(* folding constant x^n mod G with a carryless multiplication, adds the    *)
(* next n message bits and reduces modulo the generator G.                 *)
(* A polynomial is the set of the exponents of its terms.  The variant is  *)
(* reflected: bit i of the register is the coefficient of x^(63 - i).      *)
(***************************************************************************)
\* Bytes folded by one full fold step (one 128-bit register).
FOLD_BYTES == 16

\* The generator's low 64 coefficients, in the reflected bit order.
POLY == FromHex(<<9,10,6,12, 9,3,2,9, 10,12,4,11, 12,9,11,5>>)

RegPoly(state) == {63 - i : i \in state}

PolyReg(p) == {63 - e : e \in p}

Generator == {64} \cup RegPoly(POLY)

\* The message bits as a polynomial: the first bit consumed (bit 0 of the
\* first byte) is the term of the highest degree.
MsgPoly(bytes) ==
    {8 * Len(bytes) - 1 - k : k \in
        {m \in 0..(8 * Len(bytes) - 1) :
            (bytes[(m \div 8) + 1] \div Pow2(m % 8)) % 2 = 1}}

PolyShift(p, n) == {e + n : e \in p}

\* Carryless multiplication of two polynomials of degree below 64.
Clmul(a, b) ==
    {k \in 0..126 : Cardinality({i \in a : (k - i) \in b}) % 2 = 1}

\* The k leading terms of p, of degrees d down to d - k + 1 (all at least
\* 64), cancelled by multiples of the generator.
RECURSIVE ReduceTerms(_, _, _)
ReduceTerms(p, d, k) ==
    IF k = 0 THEN p
    ELSE ReduceTerms(IF d \in p THEN Xor(p, PolyShift(Generator, d - 64)) ELSE p,
                     d - 1, k - 1)

\* p modulo the generator, p of degree at most d: eight terms at a time.
RECURSIVE Reduce(_, _)
Reduce(p, d) ==
    IF d < 64 \/ p = {} THEN p
    ELSE Reduce(ReduceTerms(p, d, Min(8, d - 63)), d - Min(8, d - 63))

\* The folding constant for n message bits: x^n mod G.
FoldKey(n) == Reduce({n}, n)

\* Fold the register over one block (a full block, or a shorter tail with a
\* folding constant of its own size).
Fold(state, block) ==
    LET n == 8 * Len(block)
    IN  PolyReg(Reduce(Xor(Clmul(RegPoly(state), FoldKey(n)),
                           PolyShift(MsgPoly(block), 64)),
                       IF n + 63 > 126 THEN n + 63 ELSE 126))

\* Digest::new()
DigestNew == 0..63

\* Digest::write(bytes): the full blocks in order, then the tail.
RECURSIVE DigestWrite(_, _)
DigestWrite(state, bytes) ==
    IF bytes = <<>> \/ state # state THEN state
    ELSE IF Len(bytes) >= FOLD_BYTES
         THEN DigestWrite(Fold(state, SubSeq(bytes, 1, FOLD_BYTES)),
                          SubSeq(bytes, FOLD_BYTES + 1, Len(bytes)))
         ELSE Fold(state, bytes)

\* Digest::sum64()
DigestSum64(state) == Not64(state)

(***************************************************************************)
(* Strings.  A Rust String is its UTF-8 bytes and as_bytes() is a view of  *)
(* them, so a string is modelled as the sequence of its bytes; the         *)
(* literals of the program are named here.                                 *)
(***************************************************************************)
as_bytes(input) == input

\* "--file"
LIT_FILE == <<45,45,102,105,108,101>>

\* "--string"
LIT_STRING == <<45,45,115,116,114,105,110,103>>

\* "--validate-slow"
LIT_VALIDATE_SLOW == <<45,45,118,97,108,105,100,97,116,101,45,115,108,111,119>>

(***************************************************************************)
(* println!("{}", checksum): the unsigned decimal digits of a u64, by      *)
(* repeated division by ten.  The word is held as four 16-bit limbs so     *)
(* that no intermediate number leaves the range of the arithmetic.         *)
(***************************************************************************)
RECURSIVE LimbValue(_, _, _)
LimbValue(v, lo, n) ==
    IF n = 0 THEN 0
    ELSE (IF lo \in v THEN 1 ELSE 0) + 2 * LimbValue(v, lo + 1, n - 1)

\* <<most significant limb, ..., least significant limb>>
Limbs(v) == <<LimbValue(v, 48, 16), LimbValue(v, 32, 16),
              LimbValue(v, 16, 16), LimbValue(v, 0, 16)>>

\* Long division of the limbs by ten: <<quotient limbs, remainder>>.
DivMod10(l) ==
    LET c1 == l[1]
        c2 == (c1 % 10) * 65536 + l[2]
        c3 == (c2 % 10) * 65536 + l[3]
        c4 == (c3 % 10) * 65536 + l[4]
    IN  << <<c1 \div 10, c2 \div 10, c3 \div 10, c4 \div 10>>, c4 % 10 >>

RECURSIVE DecimalDigits(_, _)
DecimalDigits(l, acc) ==
    LET qr == DivMod10(l)
        out == <<48 + qr[2]>> \o acc
    IN  IF qr[1] = <<0, 0, 0, 0>> THEN out ELSE DecimalDigits(qr[1], out)

\* The ASCII text that `{}` prints for a u64.
ToDecimal(v) == DecimalDigits(Limbs(v), <<>>)

(***************************************************************************)
(* The string entry points                                                 *)
(***************************************************************************)
calculate_crc_64_simd_from_string(input) ==
    DigestSum64(DigestWrite(DigestNew, as_bytes(input)))

calculate_crc_64_validate_from_string(input) ==
    RefFinalize(CRC_NVME, RefUpdate(CRC_NVME, RefInit(CRC_NVME), as_bytes(input)))

(***************************************************************************)
(* Bounds of the model                                                     *)
(***************************************************************************)
\* The most bytes one read of the file returns: a full fold block, and less
\* than the longest file tried, which therefore takes several reads.
MaxRead == 16

\* The most segments fed to a pair of digests, and the most bytes in all.
MaxSegs == 3

MaxBytes == 34

(***************************************************************************)
(* The program                                                             *)
(***************************************************************************)
CHUNK_SIZE == 100 * 1024 * 1024

\* The cells of `buffer` a read can reach; the cells beyond them stay zero
\* and are never read.
BufCells == Min(CHUNK_SIZE, MaxRead)

\* "123456789"
CheckInput == <<49,50,51,52,53,54,55,56,57>>

\* "0123456789abcdefg": one byte more than a full fold step.
Text17 == <<48,49,50,51,52,53,54,55,56,57,97,98,99,100,101,102,103>>

\* argv[0]
ProgName == <<99,114,99>>

\* "aaaaaaaaaaaaaaaaa": seventeen equal bytes, the longest file tried.
Rep17 == [i \in 1..17 |-> 97]

\* A path: "f"
PathF == <<102>>

\* "--text", a mode selector the program does not know.
LIT_TEXT == <<45,45,116,101,120,116>>

\* What may follow the value: nothing, "--validate-slow", "--fast",
\* "--validate-slow" "extra", "--fast" "--validate-slow".
Tails == {<<>>, <<LIT_VALIDATE_SLOW>>, <<<<45,45,102,97,115,116>>>>,
          <<LIT_VALIDATE_SLOW, <<101,120,116,114,97>>>>,
          <<<<45,45,102,97,115,116>>, LIT_VALIDATE_SLOW>>}

\* Argument lists tried: too short; "--string" with the values "",
\* "123456789" and Text17; "--file" with a path; an unknown mode.
ArgLists ==
    {<<ProgName>>, <<ProgName, LIT_FILE>>, <<ProgName, LIT_STRING>>}
    \cup {<<ProgName, LIT_STRING, v>> \o t : v \in {<<>>, CheckInput, Text17},
                                            t \in Tails}
    \cup {<<ProgName, LIT_FILE, PathF>> \o t : t \in Tails}
    \cup {<<ProgName, LIT_TEXT, CheckInput>> \o t : t \in Tails}

\* File contents tried.
Contents == {<<>>, <<0>>, <<49,50>>, <<49,50,51>>, CheckInput, Rep17}

\* What the path names: nothing, or a file with its content.
Disks == {[exists |-> FALSE, content |-> <<>>]}
         \cup {[exists |-> TRUE, content |-> c] : c \in Contents}

\* Segments fed to the digests: empty, single bytes, the two halves of
\* "123456789", and one full fold block ("0123456789abcdef").
Segments == {<<>>, <<0>>, <<255>>, <<49,50,51,52,53>>, <<54,55,56,57>>,
             <<48,49,50,51,52,53,54,55,56,57,97,98,99,100,101,102>>}

VARIABLES
    args,        \* env::args(), the program name first
    disk,        \* what the path argument names
    pc,          \* where control is
    fn,          \* the checksum function called: "none", "simd", "validate"
    reg,         \* the register of that function's digest
    pos,         \* bytes of the file consumed by the reader
    buffer,      \* the first BufCells cells of `buffer`
    bytes_read,  \* the value of the last successful read
    result,      \* what the file function returned
    stdout,      \* the lines printed
    exit_code,   \* -1 while the process runs
    fed,         \* history: the slices given to write/update, concatenated
    calls,       \* history: how often open, read, update, finalize ran
    failed,      \* history: the error met, "none" if none
    segs,        \* digest harness: the segments fed so far
    acc,         \* digest harness: the Accelerated Digest's register
    ref,         \* digest harness: the Reference Digest's register
    closed       \* digest harness: the message's own checksum was appended

progVars == <<args, disk, pc, fn, reg, pos, buffer, bytes_read, result,
              stdout, exit_code, fed, calls, failed>>

harnessVars == <<segs, acc, ref, closed>>

vars == <<progVars, harnessVars>>

RECURSIVE Flatten(_)
Flatten(ss) == IF ss = <<>> THEN <<>> ELSE Head(ss) \o Flatten(Tail(ss))

Line(fmt, arg) == [fmt |-> fmt, arg |-> arg]

NoResult == [tag |-> "none", value |-> {}]

NoCalls == [open |-> 0, read |-> 0, update |-> 0, finalize |-> 0]

HarnessIdle ==
    /\ segs = <<>>
    /\ acc = DigestNew
    /\ ref = RefInit(CRC_NVME)
    /\ closed = FALSE

ProgIdle ==
    /\ pc = "main"
    /\ fn = "none"
    /\ reg = {}
    /\ pos = 0
    /\ buffer = [i \in 1..BufCells |-> 0]
    /\ bytes_read = 0
    /\ result = NoResult
    /\ stdout = <<>>
    /\ exit_code = -1
    /\ fed = <<>>
    /\ calls = NoCalls
    /\ failed = "none"

\* One invocation: any argument list, any disk.
Init ==
    /\ args \in ArgLists
    /\ disk \in Disks
    /\ ProgIdle
    /\ HarnessIdle

(***************************************************************************)
(* main                                                                    *)
(***************************************************************************)
Exit(lines, code) ==
    /\ stdout' = stdout \o lines
    /\ exit_code' = code
    /\ pc' = "exit"

UsageLines == <<Line("usage", <<>>), Line("example_file", <<>>),
                Line("example_string", <<>>), Line("validate_note", <<>>)>>

\* args.len() == 4 && args[3] == "--validate-slow"
use_slow_validation == Len(args) = 4 /\ args[4] = LIT_VALIDATE_SLOW

\* if args.len() < 3 { usage; return ExitCode::from(1) }
main_usage ==
    /\ pc = "main"
    /\ Len(args) < 3
    /\ Exit(UsageLines, 1)
    /\ failed' = "usage"
    /\ UNCHANGED <<args, disk, fn, reg, pos, buffer, bytes_read, result, fed,
                   calls, harnessVars>>

\* _ => { "Invalid input type. Use --file or --string."; ExitCode::from(1) }
main_invalid_type ==
    /\ pc = "main"
    /\ Len(args) >= 3
    /\ args[2] # LIT_FILE
    /\ args[2] # LIT_STRING
    /\ Exit(<<Line("invalid_input_type", <<>>)>>, 1)
    /\ failed' = "type"
    /\ UNCHANGED <<args, disk, fn, reg, pos, buffer, bytes_read, result, fed,
                   calls, harnessVars>>

\* "--file": fs::metadata(input).is_err()
main_file_not_found ==
    /\ pc = "main"
    /\ Len(args) >= 3
    /\ args[2] = LIT_FILE
    /\ ~disk.exists
    /\ Exit(<<Line("couldnt_open_file", args[3])>>, 1)
    /\ failed' = "notfound"
    /\ UNCHANGED <<args, disk, fn, reg, pos, buffer, bytes_read, result, fed,
                   calls, harnessVars>>

\* "--file": the function is chosen and called; it creates its digest
\* before it opens the file.
main_file ==
    /\ pc = "main"
    /\ Len(args) >= 3
    /\ args[2] = LIT_FILE
    /\ disk.exists
    /\ IF use_slow_validation
       THEN fn' = "validate" /\ reg' = RefInit(CRC_NVME)
       ELSE fn' = "simd" /\ reg' = DigestNew
    /\ pc' = "open"
    /\ UNCHANGED <<args, disk, pos, buffer, bytes_read, result, stdout,
                   exit_code, fed, calls, failed, harnessVars>>

\* main_string taking the mode selector, args[1], for the value.
main_string_WrongArg ==
    /\ pc = "main"
    /\ Len(args) >= 3
    /\ args[2] = LIT_STRING
    /\ LET checksum == IF use_slow_validation
                       THEN calculate_crc_64_validate_from_string(args[2])
                       ELSE calculate_crc_64_simd_from_string(args[2])
       IN  Exit(<<Line("{}", ToDecimal(checksum))>>, 0)
    /\ fn' = IF use_slow_validation THEN "validate" ELSE "simd"
    /\ fed' = as_bytes(args[3])
    /\ calls' = [calls EXCEPT !.update = 1, !.finalize = 1]
    /\ UNCHANGED <<args, disk, reg, pos, buffer, bytes_read, result, failed,
                   harnessVars>>

\* "--string": the checksum of the whole value, printed; ExitCode::SUCCESS
main_string ==
    /\ pc = "main"
    /\ Len(args) >= 3
    /\ args[2] = LIT_STRING
    /\ LET checksum == IF use_slow_validation
                       THEN calculate_crc_64_validate_from_string(args[3])
                       ELSE calculate_crc_64_simd_from_string(args[3])
       IN  Exit(<<Line("{}", ToDecimal(checksum))>>, 0)
    /\ fn' = IF use_slow_validation THEN "validate" ELSE "simd"
    /\ fed' = as_bytes(args[3])
    /\ calls' = [calls EXCEPT !.update = 1, !.finalize = 1]
    /\ UNCHANGED <<args, disk, reg, pos, buffer, bytes_read, result, failed,
                   harnessVars>>

\* match result { Ok(checksum) => print it, SUCCESS; Err(e) => report, 1 }
main_report ==
    /\ pc = "report"
    /\ \/ /\ result.tag = "ok"
          /\ Exit(<<Line("{}", ToDecimal(result.value))>>, 0)
       \/ /\ result.tag = "err"
          /\ Exit(<<Line("error_processing_file", args[3])>>, 1)
    /\ UNCHANGED <<args, disk, fn, reg, pos, buffer, bytes_read, result, fed,
                   calls, failed, harnessVars>>

(***************************************************************************)
(* The file as the reader sees it                                          *)
(***************************************************************************)
Remaining == Len(disk.content) - pos

\* A read that returns `data` stores it at the front of the buffer and
\* leaves the other cells as they were.
ReadInto(buf, data) ==
    [i \in 1..BufCells |-> IF i <= Len(data) THEN data[i] ELSE buf[i]]

(***************************************************************************)
(* calculate_crc_64_simd_from_file                                       *)
(***************************************************************************)
\* File::open(file_path)?
simd_open ==
    /\ pc = "open"
    /\ fn = "simd"
    /\ calls' = [calls EXCEPT !.open = @ + 1]
    /\ \/ /\ pc' = "read"
          /\ UNCHANGED <<result, failed>>
       \/ /\ result' = [tag |-> "err", value |-> {}]
          /\ failed' = "open"
          /\ pc' = "report"
    /\ UNCHANGED <<args, disk, fn, reg, pos, buffer, bytes_read, stdout,
                   exit_code, fed, harnessVars>>

\* simd_read with a failed read taken for the end of the file.
simd_read_ErrorAsEof ==
    /\ pc = "read"
    /\ fn = "simd"
    /\ calls' = [calls EXCEPT !.read = @ + 1]
    /\ \/ /\ \E n \in 1..Min(BufCells, Remaining) :
                /\ buffer' = ReadInto(buffer, SubSeq(disk.content, pos + 1, pos + n))
                /\ bytes_read' = n
                /\ pos' = pos + n
          /\ pc' = "check"
          /\ UNCHANGED <<result, failed>>
       \/ /\ Remaining = 0
          /\ bytes_read' = 0
          /\ pc' = "check"
          /\ UNCHANGED <<buffer, pos, result, failed>>
       \/ /\ failed' = "read"
          /\ bytes_read' = 0
          /\ pc' = "check"
          /\ UNCHANGED <<buffer, pos, result>>
    /\ UNCHANGED <<args, disk, fn, reg, stdout, exit_code, fed, harnessVars>>

\* let bytes_read = reader.read(&mut buffer)?
simd_read ==
    /\ pc = "read"
    /\ fn = "simd"
    /\ calls' = [calls EXCEPT !.read = @ + 1]
    /\ \/ /\ \E n \in 1..Min(BufCells, Remaining) :
                /\ buffer' = ReadInto(buffer, SubSeq(disk.content, pos + 1, pos + n))
                /\ bytes_read' = n
                /\ pos' = pos + n
          /\ pc' = "check"
          /\ UNCHANGED <<result, failed>>
       \/ /\ Remaining = 0
          /\ bytes_read' = 0
          /\ pc' = "check"
          /\ UNCHANGED <<buffer, pos, result, failed>>
       \/ /\ result' = [tag |-> "err", value |-> {}]
          /\ failed' = "read"
          /\ pc' = "report"
          /\ UNCHANGED <<buffer, pos, bytes_read>>
    /\ UNCHANGED <<args, disk, fn, reg, stdout, exit_code, fed, harnessVars>>

\* simd_loop writing &buffer[..] instead of &buffer[..bytes_read].
simd_loop_WholeBuffer ==
    /\ pc = "check"
    /\ fn = "simd"
    /\ \/ /\ bytes_read = 0
          /\ pc' = "finalize"
          /\ UNCHANGED <<reg, fed, calls>>
       \/ /\ bytes_read # 0
          /\ reg' = DigestWrite(reg, SubSeq(buffer, 1, BufCells))
          /\ fed' = fed \o SubSeq(buffer, 1, BufCells)
          /\ calls' = [calls EXCEPT !.update = @ + 1]
          /\ pc' = "read"
    /\ UNCHANGED <<args, disk, fn, pos, buffer, bytes_read, result, stdout,
                   exit_code, failed, harnessVars>>

\* simd_loop without the test for the end of the file.
simd_loop_NoBreak ==
    /\ pc = "check"
    /\ fn = "simd"
    /\ \/ /\ FALSE
          /\ pc' = "finalize"
          /\ UNCHANGED <<reg, fed, calls>>
       \/ /\ TRUE
          /\ reg' = DigestWrite(reg, SubSeq(buffer, 1, bytes_read))
          /\ fed' = fed \o SubSeq(buffer, 1, bytes_read)
          /\ calls' = [calls EXCEPT !.update = @ + 1]
          /\ pc' = "read"
    /\ UNCHANGED <<args, disk, fn, pos, buffer, bytes_read, result, stdout,
                   exit_code, failed, harnessVars>>

\* if bytes_read == 0 { break; }  c.write(&buffer[..bytes_read])
simd_loop ==
    /\ pc = "check"
    /\ fn = "simd"
    /\ \/ /\ bytes_read = 0
          /\ pc' = "finalize"
          /\ UNCHANGED <<reg, fed, calls>>
       \/ /\ bytes_read # 0
          /\ reg' = DigestWrite(reg, SubSeq(buffer, 1, bytes_read))
          /\ fed' = fed \o SubSeq(buffer, 1, bytes_read)
          /\ calls' = [calls EXCEPT !.update = @ + 1]
          /\ pc' = "read"
    /\ UNCHANGED <<args, disk, fn, pos, buffer, bytes_read, result, stdout,
                   exit_code, failed, harnessVars>>

\* Ok(c.sum64())
simd_return ==
    /\ pc = "finalize"
    /\ fn = "simd"
    /\ result' = [tag |-> "ok", value |-> DigestSum64(reg)]
    /\ calls' = [calls EXCEPT !.finalize = @ + 1]
    /\ pc' = "report"
    /\ UNCHANGED <<args, disk, fn, reg, pos, buffer, bytes_read, stdout,
                   exit_code, fed, failed, harnessVars>>

(***************************************************************************)
(* calculate_crc_64_validate_from_file                                       *)
(***************************************************************************)
\* File::open(file_path)?
validate_open ==
    /\ pc = "open"
    /\ fn = "validate"
    /\ calls' = [calls EXCEPT !.open = @ + 1]
    /\ \/ /\ pc' = "read"
          /\ UNCHANGED <<result, failed>>
       \/ /\ result' = [tag |-> "err", value |-> {}]
          /\ failed' = "open"
          /\ pc' = "report"
    /\ UNCHANGED <<args, disk, fn, reg, pos, buffer, bytes_read, stdout,
                   exit_code, fed, harnessVars>>

\* let bytes_read = reader.read(&mut buffer)?
validate_read ==
    /\ pc = "read"
    /\ fn = "validate"
    /\ calls' = [calls EXCEPT !.read = @ + 1]
    /\ \/ /\ \E n \in 1..Min(BufCells, Remaining) :
                /\ buffer' = ReadInto(buffer, SubSeq(disk.content, pos + 1, pos + n))
                /\ bytes_read' = n
                /\ pos' = pos + n
          /\ pc' = "check"
          /\ UNCHANGED <<result, failed>>
       \/ /\ Remaining = 0
          /\ bytes_read' = 0
          /\ pc' = "check"
          /\ UNCHANGED <<buffer, pos, result, failed>>
       \/ /\ result' = [tag |-> "err", value |-> {}]
          /\ failed' = "read"
          /\ pc' = "report"
          /\ UNCHANGED <<buffer, pos, bytes_read>>
    /\ UNCHANGED <<args, disk, fn, reg, stdout, exit_code, fed, harnessVars>>

\* validate_loop leaving the loop after any read shorter than the buffer.
validate_loop_BreakOnShortRead ==
    /\ pc = "check"
    /\ fn = "validate"
    /\ reg' = RefUpdate(CRC_NVME, reg, SubSeq(buffer, 1, bytes_read))
    /\ fed' = fed \o SubSeq(buffer, 1, bytes_read)
    /\ calls' = [calls EXCEPT !.update = @ + 1]
    /\ pc' = IF bytes_read < CHUNK_SIZE THEN "finalize" ELSE "read"
    /\ UNCHANGED <<args, disk, fn, pos, buffer, bytes_read, result, stdout,
                   exit_code, failed, harnessVars>>

\* if bytes_read == 0 { break; }  digest.update(&buffer[..bytes_read])
validate_loop ==
    /\ pc = "check"
    /\ fn = "validate"
    /\ \/ /\ bytes_read = 0
          /\ pc' = "finalize"
          /\ UNCHANGED <<reg, fed, calls>>
       \/ /\ bytes_read # 0
          /\ reg' = RefUpdate(CRC_NVME, reg, SubSeq(buffer, 1, bytes_read))
          /\ fed' = fed \o SubSeq(buffer, 1, bytes_read)
          /\ calls' = [calls EXCEPT !.update = @ + 1]
          /\ pc' = "read"
    /\ UNCHANGED <<args, disk, fn, pos, buffer, bytes_read, result, stdout,
                   exit_code, failed, harnessVars>>

\* Ok(digest.finalize())
validate_return ==
    /\ pc = "finalize"
    /\ fn = "validate"
    /\ result' = [tag |-> "ok", value |-> RefFinalize(CRC_NVME, reg)]
    /\ calls' = [calls EXCEPT !.finalize = @ + 1]
    /\ pc' = "report"
    /\ UNCHANGED <<args, disk, fn, reg, pos, buffer, bytes_read, stdout,
                   exit_code, fed, failed, harnessVars>>

Next ==
    \/ main_usage
    \/ main_invalid_type
    \/ main_file_not_found
    \/ main_file
    \/ main_string
    \/ main_report
    \/ simd_open
    \/ simd_read
    \/ simd_loop
    \/ simd_return
    \/ validate_open
    \/ validate_read
    \/ validate_loop
    \/ validate_return

Spec == Init /\ [][Next]_vars

\* The program is one sequential thread that nothing suspends: until the
\* process has exited, control moves on.  (Every step of Next moves pc, and
\* NeverStuck below says a step is possible wherever pc is not "exit".)
Advance ==
    /\ pc \in {"main", "open", "read", "check", "finalize", "report"}
    /\ \E p \in {"open", "read", "check", "finalize", "report", "exit"} \ {pc} :
          pc' = p

LiveSpec == Spec /\ WF_pc(Advance)

(***************************************************************************)
(* The digests on their own: two fresh digests fed the same segments.      *)
(***************************************************************************)
\* u64::to_le_bytes
to_le_bytes(v) == [k \in 1..8 |-> LimbValue(v, 8 * (k - 1), 8)]

DigestInit ==
    /\ args = <<ProgName>>
    /\ disk = [exists |-> FALSE, content |-> <<>>]
    /\ pc = "off"
    /\ fn = "none"
    /\ reg = {}
    /\ pos = 0
    /\ buffer = [i \in 1..BufCells |-> 0]
    /\ bytes_read = 0
    /\ result = NoResult
    /\ stdout = <<>>
    /\ exit_code = -1
    /\ fed = <<>>
    /\ calls = NoCalls
    /\ failed = "none"
    /\ HarnessIdle

\* Feed with the digests created anew for each segment.
Feed_FreshDigest(seg) ==
    /\ ~closed
    /\ Len(segs) < MaxSegs
    /\ Len(Flatten(segs)) + Len(seg) <= MaxBytes
    /\ segs' = Append(segs, seg)
    /\ acc' = DigestWrite(DigestNew, seg)
    /\ ref' = RefUpdate(CRC_NVME, RefInit(CRC_NVME), seg)
    /\ UNCHANGED <<closed, progVars>>

\* c.write(seg) and digest.update(seg)
Feed(seg) ==
    /\ ~closed
    /\ Len(segs) < MaxSegs
    /\ Len(Flatten(segs)) + Len(seg) <= MaxBytes
    /\ segs' = Append(segs, seg)
    /\ acc' = DigestWrite(acc, seg)
    /\ ref' = RefUpdate(CRC_NVME, ref, seg)
    /\ UNCHANGED <<closed, progVars>>

\* The message is followed by its own checksum, least significant byte first.
AppendChecksum ==
    /\ ~closed
    /\ LET own == to_le_bytes(RefFinalize(CRC_NVME, ref))
       IN  /\ segs' = Append(segs, own)
           /\ acc' = DigestWrite(acc, own)
           /\ ref' = RefUpdate(CRC_NVME, ref, own)
    /\ closed' = TRUE
    /\ UNCHANGED progVars

DigestNext ==
    \/ \E seg \in Segments : Feed(seg)
    \/ AppendChecksum

DigestSpec == DigestInit /\ [][DigestNext]_vars

(***************************************************************************)
(* Properties                                                              *)
(***************************************************************************)
Message == Flatten(segs)

\* 0xae8b14860a799888
CheckValue == FromHex(<<10,14,8,11, 1,4,8,6, 0,10,7,9, 9,8,8,8>>)

\* "--file" was given with a value: a file computation, if the file exists.
InFile == Len(args) >= 3 /\ args[2] = LIT_FILE

ChecksumPrinted == \E i \in 1..Len(stdout) : stdout[i].fmt = "{}"

\* C1: two fresh digests, one Accelerated and one Reference, fed the same
\* bytes return the same 64-bit value, whatever the length of the input
\* (empty, shorter than a fold step, a whole number of fold steps or not)
\* and however it was fed; so the two string functions agree on it.
C1_AcceleratedEqualsReference ==
    /\ DigestSum64(acc) = RefFinalize(CRC_NVME, ref)
    /\ calculate_crc_64_simd_from_string(Message)
         = calculate_crc_64_validate_from_string(Message)

\* A message longer than one fold step and not a whole number of them, fed
\* in several segments, on which the two digests agree.
C1_Witness ==
    /\ Len(Message) > FOLD_BYTES
    /\ Len(Message) % FOLD_BYTES # 0
    /\ Len(segs) >= 2
    /\ DigestSum64(acc) = RefFinalize(CRC_NVME, ref)

\* C2: for either digest, one update per segment in order and then finalize
\* returns what a single update with the whole message and then finalize
\* returns, for every partition (empty segments and no segment included).
C2_StreamingEquivalence ==
    /\ DigestSum64(acc) = DigestSum64(DigestWrite(DigestNew, Message))
    /\ RefFinalize(CRC_NVME, ref)
         = RefFinalize(CRC_NVME, RefUpdate(CRC_NVME, RefInit(CRC_NVME), Message))

\* Three segments, one of them empty and one a full fold block.
C2_Witness ==
    /\ Len(segs) = 3
    /\ \E i \in 1..3 : segs[i] = <<>>
    /\ \E i \in 1..3 : Len(segs[i]) = FOLD_BYTES
    /\ Len(Message) > FOLD_BYTES
    /\ DigestSum64(acc) = DigestSum64(DigestWrite(DigestNew, Message))

\* C3: a fresh digest of either implementation fed "123456789" returns
\* 0xae8b14860a799888, which is the check value of the descriptor.
C3_CheckVector ==
    Message = CheckInput =>
        /\ DigestSum64(acc) = CheckValue
        /\ RefFinalize(CRC_NVME, ref) = CheckValue
        /\ CRC_NVME.check = CheckValue

\* "123456789" fed as "12345" and "6789".
C3_Witness ==
    /\ Message = CheckInput
    /\ Len(segs) >= 2
    /\ DigestSum64(acc) = CheckValue
    /\ RefFinalize(CRC_NVME, ref) = CheckValue

\* `--string 123456789`, with or without `--validate-slow`, has exited.
C4_Invocation ==
    /\ pc = "exit"
    /\ args \in {<<ProgName, LIT_STRING, CheckInput>>,
                 <<ProgName, LIT_STRING, CheckInput, LIT_VALIDATE_SLOW>>}

\* C4 as stated: `--string 123456789` prints 15024448725040358071 and exits
\* 0, with or without `--validate-slow`.
C4_Original ==
    C4_Invocation =>
        /\ stdout = <<Line("{}", <<49,53,48,50,52,52,52,56,55,50,
                                   53,48,52,48,51,53,56,48,55,49>>)>>
        /\ exit_code = 0

\* C4 amended: `--string 123456789` prints 12577168950296156296, the
\* decimal form of 0xae8b14860a799888, and exits 0, with or without
\* `--validate-slow`.
C4_EndToEnd ==
    C4_Invocation =>
        /\ stdout = <<Line("{}", <<49,50,53,55,55,49,54,56,57,53,
                                   48,50,57,54,49,53,54,50,57,54>>)>>
        /\ stdout[1].arg = ToDecimal(CheckValue)
        /\ exit_code = 0

\* The run with `--validate-slow` has printed the number and exited 0.
C4_Witness ==
    /\ pc = "exit"
    /\ args = <<ProgName, LIT_STRING, CheckInput, LIT_VALIDATE_SLOW>>
    /\ fn = "validate"
    /\ stdout = <<Line("{}", ToDecimal(CheckValue))>>
    /\ exit_code = 0

\* C5 as stated: with a valid mode and a value, the Reference Digest is used
\* whenever `--validate-slow` is the third argument, whatever follows it, and
\* the Accelerated Digest in every other case.
C5_Original ==
    fn # "none" =>
        (fn = "validate" <=> (Len(args) >= 4 /\ args[4] = LIT_VALIDATE_SLOW))

\* C6: an error (usage, unknown mode, file not found, failed open, failed
\* read after any number of segments) ends the invocation: no checksum is
\* returned or printed, the exit status is 1, and after the error no open,
\* read, update or finalize is made.
C6_ErrorsTerminal ==
    /\ [](failed # "none" => ~ChecksumPrinted /\ result.tag # "ok"
                              /\ exit_code # 0 /\ pc \in {"report", "exit"})
    /\ [](pc = "exit" /\ failed # "none" => exit_code = 1)
    /\ [](calls.open <= 1)
    /\ [][failed # "none" => calls' = calls /\ failed' = failed]_vars

\* A read failed after two segments were folded; the process exited with 1
\* and printed only the error.
C6_Witness ==
    /\ pc = "exit"
    /\ failed = "read"
    /\ calls.update = 2
    /\ exit_code = 1
    /\ Len(stdout) = 1
    /\ stdout[1].fmt = "error_processing_file"

\* C8: in both file functions the slices given to the digest, in order, are
\* the bytes of the file consumed so far, and at the end the whole file; so
\* the result is the one the string function gives for the same bytes.
C8_PassThrough ==
    /\ (InFile /\ fn # "none") =>
          fed = SubSeq(disk.content, 1,
                       IF pc = "check" THEN pos - bytes_read ELSE pos)
    /\ result.tag = "ok" =>
          /\ fed = disk.content
          /\ result.value = (IF fn = "simd"
                             THEN calculate_crc_64_simd_from_string(disk.content)
                             ELSE calculate_crc_64_validate_from_string(disk.content))

\* "123" read as "12" then "3": the buffer still holds the stale "2" behind
\* the last byte read, and the file's checksum was printed.
C8_Witness ==
    /\ pc = "exit"
    /\ exit_code = 0
    /\ disk.content = <<49,50,51>>
    /\ calls.update = 2
    /\ buffer[1] = 51
    /\ buffer[2] = 50
    /\ fed = disk.content

\* The consumer's state of section 4.4.
ConsumerState ==
    CASE pc = "open" -> "Idle"
      [] pc \in {"read", "check", "finalize"} -> "Reading"
      [] pc \in {"report", "exit"} /\ result.tag = "ok" -> "Finalized"
      [] pc \in {"report", "exit"} /\ result.tag = "err" -> "Failed"
      [] OTHER -> "None"

\* C9: a file computation goes Idle -> Reading -> (Reading | Finalized), or
\* leaves through an error; finalize is called at most once, only right
\* after a read that returned zero bytes, never after an open or read error;
\* no read and no update follows it; a checksum exists only in Finalized.
C9_StateMachine ==
    /\ [](calls.finalize <= 1)
    /\ [](failed # "none" => calls.finalize = 0)
    /\ [](result.tag = "ok" <=> ConsumerState = "Finalized")
    /\ [](ConsumerState = "Finalized" => calls.finalize = 1)
    /\ [][ConsumerState' # ConsumerState =>
            <<ConsumerState, ConsumerState'>> \in
                {<<"None", "Idle">>, <<"Idle", "Reading">>,
                 <<"Reading", "Finalized">>, <<"Idle", "Failed">>,
                 <<"Reading", "Failed">>}]_vars
    /\ [][(InFile /\ calls'.finalize > calls.finalize) =>
            pc = "finalize" /\ bytes_read = 0 /\ Remaining = 0]_vars
    /\ [][pc' = "finalize" => pc = "check" /\ bytes_read = 0]_vars
    /\ [][pc' = "check" => pc = "read"]_vars
    /\ [][calls.finalize >= 1 =>
            calls'.read = calls.read /\ calls'.update = calls.update]_vars

\* A file of nine bytes read in three segments, finalized once.
C9_Witness ==
    /\ ConsumerState = "Finalized"
    /\ Len(disk.content) = 9
    /\ calls.update = 3
    /\ calls.read = 4
    /\ calls.finalize = 1

\* Wherever the process has not exited, a step is possible.
NeverStuck ==
    /\ pc = "main" =>
          \/ ENABLED (main_usage \/ main_invalid_type \/ main_file_not_found
                        \/ main_file)
          \/ (Len(args) >= 3 /\ args[2] = LIT_STRING)
    /\ pc = "open" => ENABLED (simd_open \/ validate_open)
    /\ pc = "read" => ENABLED (simd_read \/ validate_read)
    /\ pc = "check" => fn \in {"simd", "validate"}
    /\ pc = "finalize" => ENABLED (simd_return \/ validate_return)
    /\ pc = "report" => result.tag \in {"ok", "err"}

\* C10: the read loop over a file of n bytes stops, returning the checksum
\* or the first error; it makes at most n updates, none with an empty slice.
C10_Termination ==
    /\ []NeverStuck
    /\ [](InFile => calls.update <= Len(disk.content))
    /\ [][(InFile /\ calls'.update > calls.update) =>
            bytes_read > 0 /\ Len(fed') = Len(fed) + bytes_read]_vars
    /\ [](pc = "report" => result.tag \in {"ok", "err"})
    /\ (pc = "open") ~> (pc = "report")

\* Seventeen bytes read one at a time: seventeen updates, then the checksum.
C10_Witness ==
    /\ pc = "report"
    /\ result.tag = "ok"
    /\ Len(disk.content) = 17
    /\ calls.update = 17

\* C7 as stated: a Reference Digest that has processed a message followed by
\* the message's own checksum, least significant byte first, holds the
\* residue of the descriptor in its register.
C7_Residue == closed => ref = CRC_NVME.residue

\* What the register holds there: 0xf310303b2b6f6e42, for every message.
C7_RegisterAfterOwnChecksum ==
    closed => ref = FromHex(<<15,3,1,0, 3,0,3,11, 2,11,6,15, 6,14,4,2>>)

=============================================================================
